---------------------------- MODULE Spec2Model ----------------------------
(***************************************************************************)
(* The task-list web application of src/app.py: three request handlers     *)
(* (index, add_task, health) over one external table `tasks`.              *)
(*                                                                         *)
(* Every request is handled by its own worker, so the handlers of          *)
(* different requests interleave at their database calls.  A handler's     *)
(* steps are its database calls (connect, execute, commit, close); the     *)
(* purely local statements around a call (cursor(), fetchall() of the      *)
(* buffered cursor, cursor.close(), render/redirect) belong to the step of *)
(* the call they follow, and a request's arrival is the first step of its  *)
(* handler.                                                                *)
(*                                                                         *)
(* The store is the external collaborator: a table of committed rows, an   *)
(* AUTO_INCREMENT counter, one open transaction per connection (pymysql    *)
(* connects with autocommit off, which is why add_task calls commit()),    *)
(* and a reachability flag that the environment flips.                     *)
(***************************************************************************)
EXTENDS Naturals, Sequences, FiniteSets

\* Number of requests the application receives in one behaviour.
NumRequests == 3

Requests == 1..NumRequests

\* Values the form field `task` takes; the empty string is one of them.
TaskNames == {"", "buy milk"}

\* request.form of a POST /add: a mapping with or without the key "task".
FormWith(s) == [k \in {"task"} |-> s]
FormWithout == [k \in {} |-> ""]
Forms == {FormWithout} \cup {FormWith(s) : s \in TaskNames}

VARIABLES
    reachable,       \* the store accepts connections and answers queries
    tasks,           \* committed rows of table `tasks`
    txn,             \* txn[r]: uncommitted rows of the connection of request r
    auto_increment,  \* next identifier the store assigns
    route,           \* route[r]: "" (not arrived), "/", "/add", "/health"
    pc,              \* pc[r]: the handler's next step, "idle" or "done"
    form,            \* form[r]: request.form
    conn,            \* conn[r]: "none", "open" (acquired, not closed), "closed"
    lastrowid,       \* lastrowid[r]: identifier of the row the cursor inserted
    result,          \* result[r]: rows fetched by index (the local `tasks`)
    exc,             \* exc[r]: exception raised in the handler, "" if none
    response,        \* response[r]: what the transport layer sends back
    seen,            \* history: adds already redirected when r ran its SELECT
    quiet            \* history: no add was in flight when r ran its SELECT

vars == <<reachable, tasks, txn, auto_increment, route, pc, form, conn,
          lastrowid, result, exc, response, seen, quiet>>

store == <<reachable, tasks, txn, auto_increment>>

Row(i, s) == [id |-> i, task_name |-> s]

\* All orders in which a scan without ORDER BY may return the rows of S.
Scans(S) ==
    {s \in [1..Cardinality(S) -> S] : \A i, j \in DOMAIN s : i # j => s[i] # s[j]}

---------------------------------------------------------------------------
\* Responses.

NoResponse == [status |-> 0, body |-> <<>>, tasks |-> <<>>, location |-> ""]

\* render_template('index.html', tasks=tasks)
RenderIndex(rows) ==
    [status |-> 200, body |-> <<"index.html">>, tasks |-> rows, location |-> ""]

\* f"Database Error: {str(e)}"
DatabaseError(e) ==
    [status |-> 200, body |-> <<"Database Error: ", e>>, tasks |-> <<>>,
     location |-> ""]

\* redirect(url_for('index'))
RedirectToIndex ==
    [status |-> 302, body |-> <<>>, tasks |-> <<>>, location |-> "/"]

\* {'status': 'healthy'}, 200
Healthy ==
    [status |-> 200, body |-> <<"{", "status", ": ", "healthy", "}">>,
     tasks |-> <<>>, location |-> ""]

\* request.form['task'] on a form without the key: werkzeug's
\* BadRequestKeyError, which the framework answers with 400.
BadRequestKey ==
    [status |-> 400, body |-> <<"Bad Request", "KeyError">>, tasks |-> <<>>,
     location |-> ""]

\* Any other exception that leaves a handler: the framework's 500.
UnhandledFault(e) ==
    [status |-> 500, body |-> <<"Internal Server Error", e>>, tasks |-> <<>>,
     location |-> ""]

---------------------------------------------------------------------------
Init ==
    /\ reachable \in BOOLEAN
    /\ tasks = {}
    /\ txn = [r \in Requests |-> {}]
    /\ auto_increment = 1
    /\ route = [r \in Requests |-> ""]
    /\ pc = [r \in Requests |-> "idle"]
    /\ form = [r \in Requests |-> FormWithout]
    /\ conn = [r \in Requests |-> "none"]
    /\ lastrowid = [r \in Requests |-> 0]
    /\ result = [r \in Requests |-> <<>>]
    /\ exc = [r \in Requests |-> ""]
    /\ response = [r \in Requests |-> NoResponse]
    /\ seen = [r \in Requests |-> {}]
    /\ quiet = [r \in Requests |-> FALSE]

\* Requests arrive in the order of their numbers (the numbers name them).
Arrives(r) ==
    /\ pc[r] = "idle"
    /\ \A q \in Requests : q < r => pc[q] # "idle"

\* get_db_connection(): pymysql.connect succeeds when the store is reachable
\* and raises otherwise.
get_db_connection == reachable

---------------------------------------------------------------------------
\* The environment: the store becomes unreachable or reachable again.

StoreFlips ==
    /\ reachable' = ~reachable
    /\ UNCHANGED <<tasks, txn, auto_increment, route, pc, form, conn,
                   lastrowid, result, exc, response, seen, quiet>>

---------------------------------------------------------------------------
\* GET /health

\* Variant of health: the handler probes the store before it answers.
health_probing(r) ==
    /\ Arrives(r)
    /\ route' = [route EXCEPT ![r] = "/health"]
    /\ pc' = [pc EXCEPT ![r] = "done"]
    /\ IF get_db_connection
         THEN /\ response' = [response EXCEPT ![r] = Healthy]
              /\ conn' = [conn EXCEPT ![r] = "closed"]
         ELSE /\ response' = [response EXCEPT ![r] =
                                [Healthy EXCEPT !.status = 503]]
              /\ UNCHANGED conn
    /\ UNCHANGED <<store, form, lastrowid, result, exc, seen, quiet>>

health(r) ==
    /\ Arrives(r)
    /\ route' = [route EXCEPT ![r] = "/health"]
    /\ pc' = [pc EXCEPT ![r] = "done"]
    /\ response' = [response EXCEPT ![r] = Healthy]
    /\ UNCHANGED <<store, form, conn, lastrowid, result, exc, seen, quiet>>

---------------------------------------------------------------------------
\* GET /

\* Variant of IndexExcept: no except clause, the exception leaves index.
IndexExcept_Reraise(r, e) ==
    /\ exc' = [exc EXCEPT ![r] = e]
    /\ pc' = [pc EXCEPT ![r] = "done"]
    /\ response' = [response EXCEPT ![r] = UnhandledFault(e)]

\* except Exception as e: return f"Database Error: {str(e)}"
\* The handler returns from here: the statements of the try block after the
\* raising one are skipped, and the clause itself closes nothing.
IndexExcept(r, e) ==
    /\ exc' = [exc EXCEPT ![r] = e]
    /\ pc' = [pc EXCEPT ![r] = "done"]
    /\ response' = [response EXCEPT ![r] = DatabaseError(e)]

\* conn = get_db_connection(); cursor = conn.cursor()
IndexConnect(r) ==
    /\ Arrives(r)
    /\ route' = [route EXCEPT ![r] = "/"]
    /\ IF get_db_connection
         THEN /\ conn' = [conn EXCEPT ![r] = "open"]
              /\ pc' = [pc EXCEPT ![r] = "index_execute"]
              /\ UNCHANGED <<exc, response>>
         ELSE /\ IndexExcept(r, "OperationalError")
              /\ UNCHANGED conn
    /\ UNCHANGED <<store, form, lastrowid, result, seen, quiet>>

\* The store's answer to "SELECT * FROM tasks": the committed rows (no
\* connection sees another connection's open transaction), in any order.
SelectAllTasks == Scans(tasks)

\* Variant of fetchall: cursor.fetchone() in its place, the first row only.
fetchone(rows) == IF Len(rows) = 0 THEN <<>> ELSE <<rows[1]>>

\* cursor.fetchall(): every row of the result set, in the order received.
fetchall(rows) == rows

\* cursor.execute("SELECT * FROM tasks"); tasks = cursor.fetchall()
IndexSelect(r, rows) ==
    /\ result' = [result EXCEPT ![r] = fetchall(rows)]
    /\ pc' = [pc EXCEPT ![r] = "index_close"]
    /\ seen' = [seen EXCEPT ![r] = {a \in Requests : response[a] = RedirectToIndex}]
    /\ quiet' = [quiet EXCEPT ![r] =
                    \A a \in Requests : route[a] = "/add" => pc[a] = "done"]
    /\ UNCHANGED <<exc, response, conn>>

IndexExecute(r) ==
    /\ pc[r] = "index_execute"
    /\ \/ /\ reachable
          /\ \E rows \in SelectAllTasks : IndexSelect(r, rows)
       \/ /\ reachable
          /\ IndexExcept(r, "ProgrammingError")
          /\ UNCHANGED <<result, seen, quiet, conn>>
       \/ /\ ~reachable
          /\ IndexExcept(r, "OperationalError")
          /\ UNCHANGED <<result, seen, quiet, conn>>
    /\ UNCHANGED <<store, route, form, lastrowid>>

\* cursor.close(); conn.close(); return render_template(...)
\* render_template is still inside the try: when it raises (the template
\* cannot be loaded or rendered) the except clause answers, after the
\* connection was closed.
IndexClose(r) ==
    /\ pc[r] = "index_close"
    /\ conn' = [conn EXCEPT ![r] = "closed"]
    /\ \/ /\ pc' = [pc EXCEPT ![r] = "done"]
          /\ response' = [response EXCEPT ![r] = RenderIndex(result[r])]
          /\ UNCHANGED exc
       \/ IndexExcept(r, "TemplateNotFound")
    /\ UNCHANGED <<store, route, form, lastrowid, result, seen, quiet>>

---------------------------------------------------------------------------
\* POST /add

\* Variant of AddRaise: the exception is swallowed and the redirect returned.
AddRaise_Swallow(r, e) ==
    /\ exc' = [exc EXCEPT ![r] = e]
    /\ pc' = [pc EXCEPT ![r] = "done"]
    /\ response' = [response EXCEPT ![r] = RedirectToIndex]
    /\ UNCHANGED conn

\* An exception in add_task is caught by nobody: the handler is left at
\* the raising statement, with no try/finally to close the connection.
AddRaise(r, e) ==
    /\ exc' = [exc EXCEPT ![r] = e]
    /\ pc' = [pc EXCEPT ![r] = "done"]
    /\ response' = [response EXCEPT ![r] =
                       IF e = "KeyError" THEN BadRequestKey ELSE UnhandledFault(e)]
    /\ UNCHANGED conn

\* Variant of AddReadForm: request.form.get('task'), and a form without
\* the field is answered with the redirect and nothing else.
AddReadForm_Get(r, f) ==
    /\ Arrives(r)
    /\ route' = [route EXCEPT ![r] = "/add"]
    /\ form' = [form EXCEPT ![r] = f]
    /\ IF "task" \in DOMAIN f
         THEN /\ pc' = [pc EXCEPT ![r] = "add_connect"]
              /\ UNCHANGED <<exc, response, conn>>
         ELSE /\ pc' = [pc EXCEPT ![r] = "done"]
              /\ response' = [response EXCEPT ![r] = RedirectToIndex]
              /\ UNCHANGED <<exc, conn>>
    /\ UNCHANGED <<store, lastrowid, result, seen, quiet>>

\* Variant of AddReadForm: an empty task name is rejected like a missing one.
AddReadForm_Validating(r, f) ==
    /\ Arrives(r)
    /\ route' = [route EXCEPT ![r] = "/add"]
    /\ form' = [form EXCEPT ![r] = f]
    /\ IF "task" \in DOMAIN f /\ f["task"] # ""
         THEN /\ pc' = [pc EXCEPT ![r] = "add_connect"]
              /\ UNCHANGED <<exc, response, conn>>
         ELSE AddRaise(r, "KeyError")
    /\ UNCHANGED <<store, lastrowid, result, seen, quiet>>

\* task = request.form['task']
AddReadForm(r, f) ==
    /\ Arrives(r)
    /\ route' = [route EXCEPT ![r] = "/add"]
    /\ form' = [form EXCEPT ![r] = f]
    /\ IF "task" \in DOMAIN f
         THEN /\ pc' = [pc EXCEPT ![r] = "add_connect"]
              /\ UNCHANGED <<exc, response, conn>>
         ELSE AddRaise(r, "KeyError")
    /\ UNCHANGED <<store, lastrowid, result, seen, quiet>>

\* conn = get_db_connection(); cursor = conn.cursor()
AddConnect(r) ==
    /\ pc[r] = "add_connect"
    /\ IF get_db_connection
         THEN /\ conn' = [conn EXCEPT ![r] = "open"]
              /\ pc' = [pc EXCEPT ![r] = "add_execute"]
              /\ UNCHANGED <<exc, response>>
         ELSE AddRaise(r, "OperationalError")
    /\ UNCHANGED <<store, route, form, lastrowid, result, seen, quiet>>

\* Variant of Insert: the identifier is computed from the committed rows
\* (count + 1) instead of being taken from the store's counter.
Insert_CountPlusOne(r, s) ==
    /\ txn' = [txn EXCEPT ![r] = @ \cup {Row(Cardinality(tasks) + 1, s)}]
    /\ auto_increment' = auto_increment + 1
    /\ lastrowid' = [lastrowid EXCEPT ![r] = Cardinality(tasks) + 1]

\* The store's INSERT: the next identifier is taken and the row joins the
\* connection's open transaction.
Insert(r, s) ==
    /\ txn' = [txn EXCEPT ![r] = @ \cup {Row(auto_increment, s)}]
    /\ auto_increment' = auto_increment + 1
    /\ lastrowid' = [lastrowid EXCEPT ![r] = auto_increment]

\* cursor.execute("INSERT INTO tasks (task_name) VALUES (%s)", (task,))
AddExecute(r) ==
    /\ pc[r] = "add_execute"
    /\ \/ /\ reachable
          /\ Insert(r, form[r]["task"])
          /\ pc' = [pc EXCEPT ![r] = "add_commit"]
          /\ UNCHANGED <<exc, response, conn>>
       \/ /\ reachable
          /\ AddRaise(r, "IntegrityError")
          /\ UNCHANGED <<txn, auto_increment, lastrowid>>
       \/ /\ ~reachable
          /\ AddRaise(r, "OperationalError")
          /\ UNCHANGED <<txn, auto_increment, lastrowid>>
    /\ UNCHANGED <<reachable, tasks, route, form, result, seen, quiet>>

\* Variant of Commit: conn.commit() is missing, the rows stay invisible.
Commit_Nothing(r) ==
    /\ UNCHANGED tasks
    /\ txn' = [txn EXCEPT ![r] = {}]

\* Variant of Commit: the committed rows replace the table.
Commit_Replace(r) ==
    /\ tasks' = txn[r]
    /\ txn' = [txn EXCEPT ![r] = {}]

\* The store's COMMIT: the connection's rows become visible to everybody.
Commit(r) ==
    /\ tasks' = tasks \cup txn[r]
    /\ txn' = [txn EXCEPT ![r] = {}]

\* conn.commit()
AddCommit(r) ==
    /\ pc[r] = "add_commit"
    /\ IF reachable
         THEN /\ Commit(r)
              /\ pc' = [pc EXCEPT ![r] = "add_close"]
              /\ UNCHANGED <<exc, response, conn>>
         ELSE /\ AddRaise(r, "OperationalError")
              /\ UNCHANGED <<tasks, txn>>
    /\ UNCHANGED <<reachable, auto_increment, route, form, lastrowid,
                   result, seen, quiet>>

\* cursor.close(); conn.close(); return redirect(url_for('index'))
AddClose(r) ==
    /\ pc[r] = "add_close"
    /\ conn' = [conn EXCEPT ![r] = "closed"]
    /\ pc' = [pc EXCEPT ![r] = "done"]
    /\ response' = [response EXCEPT ![r] = RedirectToIndex]
    /\ UNCHANGED <<store, route, form, lastrowid, result, exc, seen, quiet>>

---------------------------------------------------------------------------
Next ==
    \/ StoreFlips
    \/ \E r \in Requests : health(r)
    \/ \E r \in Requests : IndexConnect(r)
    \/ \E r \in Requests : IndexExecute(r)
    \/ \E r \in Requests : IndexClose(r)
    \/ \E r \in Requests, f \in Forms : AddReadForm(r, f)
    \/ \E r \in Requests : AddConnect(r)
    \/ \E r \in Requests : AddExecute(r)
    \/ \E r \in Requests : AddCommit(r)
    \/ \E r \in Requests : AddClose(r)

Spec == Init /\ [][Next]_vars

---------------------------------------------------------------------------
\* Vocabulary of the properties.

IsIndex(r) == route[r] = "/"
IsAdd(r) == route[r] = "/add"
IsHealth(r) == route[r] = "/health"

\* The handler of r returned the rendered page.
Rendered(r) == IsIndex(r) /\ pc[r] = "done" /\ exc[r] = ""

\* The handler of a returned the redirect to Index.
Redirected(a) == IsAdd(a) /\ pc[a] = "done" /\ exc[a] = ""

\* The handler of r ran its SELECT and holds the rows.
Fetched(r) == IsIndex(r) /\ (pc[r] = "index_close" \/ Rendered(r))

RowsOf(rows) == {rows[i] : i \in DOMAIN rows}

BodyStartsWith(resp, s) == Len(resp.body) > 0 /\ resp.body[1] = s

HasTask(r) == "task" \in DOMAIN form[r]

\* The row request a inserted.
RowOf(a) == Row(lastrowid[a], form[a]["task"])

---------------------------------------------------------------------------
\* C1: a GET / whose SELECT runs after a POST /add with task=s has returned
\* its redirect renders a task sequence that holds the row of that add,
\* named s.
C1_AddedTaskIsRendered ==
    \A r \in Requests :
        Rendered(r) =>
            /\ response[r].status = 200
            /\ response[r].body = <<"index.html">>
            /\ \A a \in seen[r] :
                   /\ RowOf(a) \in RowsOf(response[r].tasks)
                   /\ \E i \in DOMAIN response[r].tasks :
                          response[r].tasks[i].task_name = form[a]["task"]

C1_Witness ==
    \E r, a \in Requests :
        /\ Rendered(r)
        /\ a \in seen[r]
        /\ Redirected(a)
        /\ form[a]["task"] = "buy milk"
        /\ RowOf(a) \in RowsOf(response[r].tasks)

\* C2: GET /health answers 200 with {"status": "healthy"} whatever the
\* store's reachability, and its handler never acquires a connection.
C2_HealthAlwaysHealthy ==
    \A r \in Requests :
        IsHealth(r) =>
            /\ pc[r] = "done"
            /\ response[r].status = 200
            /\ response[r].body = <<"{", "status", ": ", "healthy", "}">>
            /\ conn[r] = "none"
            /\ exc[r] = ""

C2_Witness ==
    \E r, q \in Requests :
        /\ IsHealth(r)
        /\ response[r].status = 200
        /\ ~reachable
        /\ q < r
        /\ IsIndex(q)
        /\ exc[q] = "OperationalError"

\* C3: whenever a step of the Index handler fails (the connection cannot
\* be acquired, or the SELECT fails on an acquired connection), the handler
\* ends with a normal 200 response whose body begins with "Database Error";
\* no response of Index is ever the framework's fault response.
C3_Inv ==
    \A r \in Requests :
        IsIndex(r) =>
            /\ response[r].status \in {0, 200}
            /\ ~BodyStartsWith(response[r], "Internal Server Error")
            /\ exc[r] # "" =>
                   /\ pc[r] = "done"
                   /\ response[r].status = 200
                   /\ BodyStartsWith(response[r], "Database Error: ")

C3_Step ==
    \A r \in Requests :
        (/\ ~reachable
         /\ pc[r] \in {"idle", "index_execute"}
         /\ pc'[r] # pc[r]
         /\ route'[r] = "/")
        => /\ pc'[r] = "done"
           /\ response'[r].status = 200
           /\ BodyStartsWith(response'[r], "Database Error: ")

\* C3, as a property of every state and every step of the Index handler.
C3_IndexNeverFaults == []C3_Inv /\ [][C3_Step]_vars

C3_Witness ==
    \E r, q \in Requests :
        /\ IsIndex(r) /\ exc[r] = "OperationalError" /\ conn[r] = "none"
        /\ BodyStartsWith(response[r], "Database Error: ")
        /\ IsIndex(q) /\ exc[q] = "ProgrammingError" /\ conn[q] = "open"
        /\ BodyStartsWith(response[q], "Database Error: ")

\* C4: the table starts empty; a GET / whose SELECT runs when no add is in
\* flight returns exactly as many rows as adds have returned their redirect,
\* and after a single add of "buy milk" exactly that one row.
C4_SequentialAddsCount ==
    \A r \in Requests :
        (Fetched(r) /\ quiet[r]) =>
            /\ Len(result[r]) = Cardinality(seen[r])
            /\ Rendered(r) => Len(response[r].tasks) = Cardinality(seen[r])
            /\ \A a \in seen[r] :
                   (seen[r] = {a} /\ form[a]["task"] = "buy milk") =>
                       result[r] = <<Row(lastrowid[a], "buy milk")>>

C4_Witness ==
    \E r \in Requests :
        /\ Rendered(r)
        /\ quiet[r]
        /\ Cardinality(seen[r]) = 2
        /\ Len(response[r].tasks) = 2
        /\ \E a \in seen[r] : form[a]["task"] = "buy milk"

\* C5: a POST /add without the field `task` ends with the missing-key
\* error (400), never the redirect; its handler acquires no connection,
\* inserts nothing, and its step leaves the store as it was.
C5_Inv ==
    \A r \in Requests :
        (IsAdd(r) /\ ~HasTask(r)) =>
            /\ pc[r] = "done"
            /\ exc[r] = "KeyError"
            /\ response[r].status = 400
            /\ response[r].location # "/"
            /\ conn[r] = "none"
            /\ txn[r] = {}
            /\ lastrowid[r] = 0

C5_Step ==
    \A r \in Requests :
        (route[r] = "" /\ route'[r] = "/add" /\ "task" \notin DOMAIN form'[r])
        => UNCHANGED <<tasks, txn, auto_increment>>

\* C5, as a property of every state and of the step that reads the form.
C5_MissingFieldIsAnError == []C5_Inv /\ [][C5_Step]_vars

C5_Witness ==
    \E r \in Requests :
        /\ IsAdd(r)
        /\ ~HasTask(r)
        /\ response[r].status = 400
        /\ tasks # {}

\* C6: a POST /add whose field `task` is the empty string is never
\* rejected by the handler; when it completes it has returned the redirect
\* to Index and its commit added exactly one row, named "".
C6_Inv ==
    \A r \in Requests :
        (IsAdd(r) /\ HasTask(r) /\ form[r]["task"] = "") =>
            /\ response[r].status # 400
            /\ exc[r] # "KeyError"
            /\ Redirected(r) =>
                   /\ response[r].status = 302
                   /\ response[r].location = "/"
                   /\ Row(lastrowid[r], "") \in tasks
                   /\ Cardinality({row \in tasks : row.id = lastrowid[r]}) = 1

C6_Step ==
    \A r \in Requests :
        (/\ IsAdd(r)
         /\ pc[r] = "add_commit"
         /\ pc'[r] = "add_close"
         /\ form[r]["task"] = "")
        => /\ tasks' = tasks \cup {Row(lastrowid[r], "")}
           /\ Cardinality(tasks') = Cardinality(tasks) + 1

\* C6, as a property of every state and of the commit step.
C6_EmptyNameIsStored == []C6_Inv /\ [][C6_Step]_vars

C6_Witness ==
    \E r \in Requests :
        /\ Redirected(r)
        /\ form[r]["task"] = ""
        /\ response[r].status = 302
        /\ Row(lastrowid[r], "") \in tasks

\* C7: when the Index handler has finished, with the page or with the
\* "Database Error" text, the connection it acquired is closed.
C7_IndexClosesItsConnection ==
    \A r \in Requests :
        (IsIndex(r) /\ pc[r] = "done") => conn[r] # "open"

\* C8: a failure of connect, insert or commit in the Add handler leaves
\* it as an unhandled fault (500, no redirect); a connection acquired before
\* the failure is never closed, and no row of that request is in the table
\* or in any rows an Index handler fetched.
C8_AddFailurePropagates ==
    \A r \in Requests :
        (IsAdd(r) /\ exc[r] \notin {"", "KeyError"}) =>
            /\ pc[r] = "done"
            /\ response[r].status = 500
            /\ response[r].location # "/"
            /\ BodyStartsWith(response[r], "Internal Server Error")
            /\ conn[r] # "closed"
            /\ (lastrowid[r] # 0 \/ exc[r] = "IntegrityError") => conn[r] = "open"
            /\ \A row \in tasks : row.id # lastrowid[r]
            /\ \A q \in Requests : \A row \in RowsOf(result[q]) :
                   row.id # lastrowid[r]

C8_Witness ==
    \E r, q \in Requests :
        /\ IsAdd(r)
        /\ exc[r] = "OperationalError"
        /\ lastrowid[r] # 0
        /\ conn[r] = "open"
        /\ response[r].status = 500
        /\ r < q
        /\ Rendered(q)

\* C9: the table only grows, by the commit of an Add handler and by one
\* row at a time; steps of Index and Health leave it unchanged; rows once
\* present stay as they are and identifiers are pairwise distinct.
C9_Inv == \A x, y \in tasks : x.id = y.id => x = y

C9_Step ==
    /\ tasks \subseteq tasks'
    /\ \A r \in Requests :
           (pc'[r] # pc[r] /\ route'[r] \in {"/", "/health"}) => tasks' = tasks
    /\ tasks' # tasks =>
           \E a \in Requests :
               /\ IsAdd(a)
               /\ pc[a] = "add_commit"
               /\ pc'[a] = "add_close"
               /\ RowOf(a) \notin tasks
               /\ tasks' = tasks \cup {RowOf(a)}

\* C9, as a property of every state and every step.
C9_TableIsAppendOnly == []C9_Inv /\ [][C9_Step]_vars

C9_Witness ==
    /\ Cardinality(tasks) = 2
    /\ \E r \in Requests : Rendered(r) /\ Len(response[r].tasks) = 1

\* C10: under every interleaving, each add that returned its redirect has
\* exactly its own row (its identifier, its name) in the table, identifiers
\* of different adds differ, the table has one row per committed add, and
\* the rows an Index handler fetched are committed rows only.
C10_ConcurrentAddsAreIndependent ==
    /\ \A a \in Requests : Redirected(a) => RowOf(a) \in tasks
    /\ \A a, b \in Requests :
           (HasTask(a) /\ HasTask(b) /\ a # b /\ lastrowid[a] # 0) =>
               lastrowid[a] # lastrowid[b]
    /\ Cardinality(tasks) =
           Cardinality({a \in Requests : pc[a] = "add_close" \/ Redirected(a)})
    /\ \A r, q \in Requests : \A row \in RowsOf(result[r]) :
           row \in tasks /\ row \notin txn[q]

C10_Witness ==
    \E a, b, r \in Requests :
        /\ Redirected(a)
        /\ Redirected(b)
        /\ lastrowid[a] < lastrowid[b]
        /\ Rendered(r)
        /\ RowsOf(response[r].tasks) = {RowOf(b)}

===========================================================================
